---- MODULE Spec2Model ----
(***************************************************************************)
(* Model of nlmanager/nlmanager.py: the netlink session engine             *)
(* (NetlinkManager).  The receive buffer is a sequence of bytes, frame     *)
(* headers are packed and unpacked as struct.pack/unpack do, and every     *)
(* handler of the manager is one action.                                   *)
(***************************************************************************)
EXTENDS Integers, Sequences, FiniteSets, TLC

VARIABLES
    seqNext,        \* Sequence._next
    tx_socket,      \* NetlinkManager.tx_socket: 0 is None, n > 0 the n-th socket created
    shutdown_flag,  \* NetlinkManager.shutdown_flag
    pc,             \* position of the single thread: "idle", "wait" (top of while True), "scan" (in while data)
    nlpacket,       \* the request tx_nlpacket_get_response was called with
    caller,         \* the operation that called tx_nlpacket_get_response
    null_read,      \* local null_read
    msgs,           \* local msgs
    data,           \* local data: the bytes of the current receive buffer not yet consumed
    result,         \* outcome of the last tx_nlpacket / tx_nlpacket_get_response call
    opres,          \* outcome of the last top-level operation
    lastOp,         \* the last top-level operation and its arguments
    sent,           \* history: the buffers handed to sendall() by the last operation
    built,          \* history: the requests built in this session, in build order
    sock,           \* history: sockets created and closed
    rx              \* history of the current wait: polls, receives and what the kernel emitted

vars == <<seqNext, tx_socket, shutdown_flag, pc, nlpacket, caller, null_read, msgs,
          data, result, opres, lastOp, sent, built, sock, rx>>

----------------------------------------------------------------------------
(* Program constants *)

MAX_NULL_READS == 30
PACKET_CONCAT_SIZE == 16384
RECV_SIZE == 4096
header_LEN == 16

NLMSG_ERROR == 2
NLMSG_DONE == 3
RTM_NEWLINK == 16
RTM_DELLINK == 17
RTM_GETLINK == 18
RTM_SETLINK == 19
RTM_NEWADDR == 20
RTM_DELADDR == 21
RTM_GETADDR == 22
RTM_NEWROUTE == 24
RTM_DELROUTE == 25
RTM_GETROUTE == 26
RTM_NEWNEIGH == 28
RTM_DELNEIGH == 29
RTM_GETNEIGH == 30
NLE_NOADDR == 19

\* os.getpid() of this process, and the pid of some other netlink client.
OurPid == 7
ForeignPid == OurPid + 1

(* Bounds of the model *)
\* requests built in one session
MaxSeq == 3
\* frames the kernel emits during one wait
MaxRxFrames == 3
\* receives in one wait
MaxRecv == 2

----------------------------------------------------------------------------
(* struct.pack / struct.unpack, little-endian *)

Byte == 0..255

\* pack('I', n) for 0 <= n < 2^31
PackU32(n) == << n % 256, (n \div 256) % 256, (n \div 65536) % 256, (n \div 16777216) % 256 >>

\* pack('H', n)
PackU16(n) == << n % 256, (n \div 256) % 256 >>

\* pack('=i', n) for -2^31 < n < 2^31: two's complement
PackI32(n) ==
    IF n >= 0 THEN PackU32(n)
    ELSE LET m == (-n) - 1
             b == PackU32(m)
         IN  << 255 - b[1], 255 - b[2], 255 - b[3], 255 - b[4] >>

\* unpack('I', b)[0].  A value of 2^31 or more is held as 2^31 - 1: it is compared
\* only with pids, sequence numbers and buffer lengths, which are all far smaller.
UnpackU32(b) ==
    IF b[4] >= 128 THEN 2147483647
    ELSE b[1] + 256 * b[2] + 65536 * b[3] + 16777216 * b[4]

\* unpack('H', b)[0]
UnpackU16(b) == b[1] + 256 * b[2]

\* unpack('=i', b)[0]
UnpackI32(b) ==
    IF b[4] < 128 THEN b[1] + 256 * b[2] + 65536 * b[3] + 16777216 * b[4]
    ELSE -((255 - b[1]) + 256 * (255 - b[2]) + 65536 * (255 - b[3]) + 16777216 * (255 - b[4])) - 1

\* abs()
Abs(n) == IF n < 0 THEN -n ELSE n

\* Python slices s[:n] and s[n:] for n >= 0
Take(s, n) == SubSeq(s, 1, IF n < Len(s) THEN n ELSE Len(s))
Drop(s, n) == IF n >= Len(s) THEN << >> ELSE SubSeq(s, n + 1, Len(s))

\* pack(header_PACK, length, type, flags, seq, pid)
PackHeader(length, msgtype, flags, seq, pid) ==
    PackU32(length) \o PackU16(msgtype) \o PackU16(flags) \o PackU32(seq) \o PackU32(pid)

\* unpack(header_PACK, b) for a b of exactly header_LEN bytes
UnpackHeader(b) ==
    [ length  |-> UnpackU32(SubSeq(b, 1, 4)),
      msgtype |-> UnpackU16(SubSeq(b, 5, 6)),
      flags   |-> UnpackU16(SubSeq(b, 7, 8)),
      seq     |-> UnpackU32(SubSeq(b, 9, 12)),
      pid     |-> UnpackU32(SubSeq(b, 13, 16)) ]

----------------------------------------------------------------------------
(* The collaborator nlpacket: type tables, build_message, decode_packet *)

\* The keys of NetlinkPacket.type_to_string: the message types the program names.
TypeToStringKeys ==
    { NLMSG_ERROR, NLMSG_DONE,
      RTM_NEWLINK, RTM_DELLINK, RTM_GETLINK, RTM_SETLINK,
      RTM_NEWADDR, RTM_DELADDR, RTM_GETADDR,
      RTM_NEWROUTE, RTM_DELROUTE, RTM_GETROUTE,
      RTM_NEWNEIGH, RTM_DELNEIGH, RTM_GETNEIGH }

\* Message types outside every table of the program.
UnknownTypes == { 99 }

\* A dispatch that finds a decoder for every type.
DecoderForAnything(msgtype) == "Link"

\* The class tx_nlpacket_get_response instantiates for a data frame ("" when none).
DecoderFor(msgtype) ==
    IF msgtype = RTM_NEWLINK \/ msgtype = RTM_DELLINK THEN "Link"
    ELSE IF msgtype = RTM_NEWADDR \/ msgtype = RTM_DELADDR THEN "Address"
    ELSE IF msgtype = RTM_NEWNEIGH \/ msgtype = RTM_DELNEIGH THEN "Neighbor"
    ELSE IF msgtype = RTM_NEWROUTE \/ msgtype = RTM_DELROUTE THEN "Route"
    ELSE ""

\* msg.decode_packet(length, flags, seq, pid, data): the object decoded from the
\* frame at the head of d; its body is the length - header_LEN bytes after the header.
DecodePacket(kind, h, d) ==
    [ kind |-> kind, msgtype |-> h.msgtype, seq |-> h.seq, pid |-> h.pid,
      body |-> Take(Drop(d, header_LEN), IF h.length > header_LEN THEN h.length - header_LEN ELSE 0) ]

\* packet.build_message(seq, pid): the encoded request, one chunk of `size` bytes
\* stamped with seq and pid.  A message is a sequence of such chunks; its length
\* in bytes is the sum of their sizes.
BuildMessage(msgtype, seq, pid, size) ==
    [ message |-> << [msgtype |-> msgtype, seq |-> seq, pid |-> pid, size |-> size] >>,
      msgtype |-> msgtype, seq |-> seq, pid |-> pid ]

\* A packet build_message() was never called on.
Unbuilt == [ message |-> << >>, msgtype |-> 0, seq |-> 0, pid |-> 0 ]

RECURSIVE MessageLen(_)
\* len(message)
MessageLen(m) == IF m = << >> THEN 0 ELSE Head(m).size + MessageLen(Tail(m))

\* The encoded size of a request that is not a route of a bulk call.
DefaultSize == header_LEN + 16

----------------------------------------------------------------------------
(* What the kernel can emit *)

\* A frame as the kernel puts it on the wire: the header fields, the body bytes,
\* and cut, the number of its bytes that reach the receive buffer.
Frame(length, msgtype, seq, pid, body, cut) ==
    [ length |-> length, msgtype |-> msgtype, flags |-> 0, seq |-> seq, pid |-> pid,
      body |-> body, cut |-> cut ]

\* A frame whose declared length is its size and which arrives whole.
WF(msgtype, seq, pid, body) ==
    Frame(header_LEN + Len(body), msgtype, seq, pid, body, header_LEN + Len(body))

WellFormed(f) == f.length = header_LEN + Len(f.body) /\ f.cut = f.length

\* The bytes of frame f in the receive buffer.
Wire(f) == Take(PackHeader(f.length, f.msgtype, f.flags, f.seq, f.pid) \o f.body, f.cut)

RECURSIVE WireAll(_)
\* The receive buffer holding the frames fs back to back.
WireAll(fs) == IF fs = << >> THEN << >> ELSE Wire(Head(fs)) \o WireAll(Tail(fs))

\* A sequence number that is not the outstanding one: the previous request's
\* (0, as in a kernel notification, for the first request).
StaleSeq(s) == s - 1

Tag(n) == << n, 0, 0, 0 >>

\* Error codes on the wire: success, no-address (negative and positive), two others.
ErrCodes == { 0, -NLE_NOADDR, NLE_NOADDR, -1, 17 }

\* The frames the kernel emits in SpecRx while the request (s, OurPid) is outstanding.
FramesRx(s) ==
    \* data frames: ours, a stale one, a foreign one
    { WF(RTM_NEWLINK, s, OurPid, Tag(1)), WF(RTM_DELROUTE, s, OurPid, Tag(2)),
      WF(RTM_NEWLINK, StaleSeq(s), OurPid, Tag(3)), WF(RTM_DELROUTE, s, ForeignPid, Tag(4)) }
    \* end of dump: ours, stale, foreign
    \cup { WF(NLMSG_DONE, s, OurPid, << >>), WF(NLMSG_DONE, StaleSeq(s), OurPid, << >>),
           WF(NLMSG_DONE, s, ForeignPid, << >>) }
    \* error frames: ours with every code, and a stale one
    \cup { WF(NLMSG_ERROR, s, OurPid, PackI32(c)) : c \in ErrCodes }
    \cup { WF(NLMSG_ERROR, StaleSeq(s), OurPid, PackI32(-1)) }
    \* a named type with no decoder, and unnamed types (ours and foreign)
    \cup { WF(RTM_GETLINK, s, OurPid, << >>) }
    \cup { WF(t, s, p, << >>) : t \in UnknownTypes, p \in {OurPid, ForeignPid} }
    \* malformed: declared length 0, shorter than a header, longer than the frame;
    \* a header cut short; an error frame with no code
    \cup { Frame(0, RTM_NEWLINK, s, ForeignPid, Tag(5), header_LEN + 4),
           Frame(8, RTM_NEWLINK, StaleSeq(s), OurPid, Tag(5), header_LEN + 4),
           Frame(header_LEN + 8, RTM_NEWLINK, s, ForeignPid, Tag(5), header_LEN + 4),
           Frame(header_LEN, RTM_NEWLINK, s, OurPid, << >>, 8),
           WF(NLMSG_ERROR, s, OurPid, << >>) }

\* The frames of the small specifications: one data frame, the end of a dump, an ack.
FramesSmall(s) ==
    { WF(RTM_NEWLINK, s, OurPid, Tag(1)), WF(NLMSG_DONE, s, OurPid, << >>),
      WF(NLMSG_ERROR, s, OurPid, PackI32(0)), WF(NLMSG_ERROR, StaleSeq(s), OurPid, PackI32(-1)) }

\* The frames of SpecLate while the request (s, OurPid) is outstanding: its own
\* data and end of dump, and late or foreign data, ends of dump and error frames.
FramesLate(s) ==
    { WF(RTM_NEWLINK, s, OurPid, Tag(1)), WF(NLMSG_DONE, s, OurPid, << >>),
      WF(RTM_NEWLINK, StaleSeq(s), OurPid, Tag(3)), WF(RTM_NEWROUTE, s, ForeignPid, Tag(4)),
      WF(NLMSG_DONE, StaleSeq(s), OurPid, << >>), WF(NLMSG_DONE, s, ForeignPid, << >>),
      WF(NLMSG_ERROR, StaleSeq(s), OurPid, PackI32(-1)),
      WF(NLMSG_ERROR, StaleSeq(s), OurPid, PackI32(0)),
      WF(NLMSG_ERROR, s, ForeignPid, PackI32(-NLE_NOADDR)) }

\* The frames of SpecIface, all answers to the outstanding request (s, OurPid):
\* the link, an ack, the no-address error and another error.
FramesIface(s) ==
    { WF(RTM_NEWLINK, s, OurPid, Tag(1)) }
    \cup { WF(NLMSG_ERROR, s, OurPid, PackI32(c)) : c \in {0, -NLE_NOADDR, -1} }

\* The buffers of 1..n frames drawn from F.
Buffers(F, n) == UNION { [1..k -> F] : k \in 1..n }

Matches(f, req) == f.pid = req.pid /\ f.seq = req.seq
IsData(f) == DecoderFor(f.msgtype) # ""

\* The object a well-formed data frame stands for.
ObjectOf(f) == [ kind |-> DecoderFor(f.msgtype), msgtype |-> f.msgtype, seq |-> f.seq,
                 pid |-> f.pid, body |-> f.body ]

\* fs is (part of) a clean answer to req: well-formed matching data frames, with
\* at most a matching NLMSG_DONE and then only as the last frame.
CleanAnswer(fs, req) ==
    \A i \in 1..Len(fs) :
        /\ WellFormed(fs[i])
        /\ Matches(fs[i], req)
        /\ \/ IsData(fs[i])
           \/ fs[i].msgtype = NLMSG_DONE /\ i = Len(fs)

EndsWithDone(fs) == fs # << >> /\ fs[Len(fs)].msgtype = NLMSG_DONE

RECURSIVE ObjectsOf(_)
\* The objects of the data frames of a clean answer, in emission order.
ObjectsOf(fs) ==
    IF fs = << >> THEN << >>
    ELSE IF IsData(Head(fs)) THEN << ObjectOf(Head(fs)) >> \o ObjectsOf(Tail(fs))
    ELSE ObjectsOf(Tail(fs))

----------------------------------------------------------------------------
(* State after NetlinkManager() *)

\* Outcomes: nothing yet, a returned list, a returned None, a returned int, a raise.
\* log is the message handed to log.error, if any.
RPending == [kind |-> "none", val |-> << >>, exc |-> "", log |-> ""]
RList(l) == [kind |-> "list", val |-> l, exc |-> "", log |-> ""]
RNone == [kind |-> "None", val |-> << >>, exc |-> "", log |-> ""]
RInt(n) == [kind |-> "int", val |-> << n >>, exc |-> "", log |-> ""]
RRaise(e) == [kind |-> "raise", val |-> << >>, exc |-> e, log |-> ""]
RLogged(m) == [kind |-> "None", val |-> << >>, exc |-> "", log |-> m]

\* The history of a wait: timed-out polls, those since the last receive (streak),
\* receives, frames emitted, whether the kernel has so far
\* emitted a clean answer, whether that answer is complete, the objects it stands
\* for; and as the wait ends: why, the signed error code read, the objects held.
RxInit == [timeouts |-> 0, streak |-> 0, recvs |-> 0, frames |-> 0, clean |-> TRUE, done |-> FALSE, expect |-> << >>,
           why |-> "none", code |-> 0, held |-> 0]

\* An operation and its arguments; tick flips with every operation begun.
NoOp == [op |-> "", ifname |-> << >>, suffix |-> 0, vlanid |-> 0, routes |-> << >>,
         ecmp |-> << >>, tick |-> FALSE]
Op(name) == [NoOp EXCEPT !.op = name]

Init ==
    /\ seqNext = 0
    /\ tx_socket = 0
    /\ shutdown_flag = FALSE
    /\ pc = "idle"
    /\ nlpacket = Unbuilt
    /\ caller = ""
    /\ null_read = 0
    /\ msgs = << >>
    /\ data = << >>
    /\ result = RPending
    /\ opres = RPending
    /\ lastOp = NoOp
    /\ sent = << >>
    /\ built = << >>
    /\ sock = [created |-> 0, closed |-> << >>]
    /\ rx = RxInit

----------------------------------------------------------------------------
(* Sequence, socket, transmit *)

\* Sequence.next() handing out 1 again and again.
SequenceNextReuses(n) == IF n = 0 THEN 1 ELSE n

\* Sequence.next(): the new value of _next, which is also what it returns.
SequenceNext(n) == n + 1

\* tx_socket_allocate() called without the test for an existing socket.
TxSocketAllocateAlways(ts, sk) ==
    [tx_socket |-> sk.created + 1, sock |-> [sk EXCEPT !.created = @ + 1]]

\* "if not self.tx_socket: self.tx_socket_allocate()"
TxSocketAllocate(ts, sk) ==
    IF ts = 0
    THEN [tx_socket |-> sk.created + 1, sock |-> [sk EXCEPT !.created = @ + 1]]
    ELSE [tx_socket |-> ts, sock |-> sk]

\* The guard of the transmit calls letting every packet through.
IsUnbuiltNever(pkt) == FALSE

\* The guard of tx_nlpacket and tx_nlpacket_get_response: "if not nlpacket.message".
IsUnbuilt(pkt) == pkt.message = << >>

\* What the caller of tx_nlpacket_get_response makes of its outcome r.
FinishOp(who, r) ==
    IF who # "get_iface_index" THEN r
    ELSE IF r.kind = "raise"
         THEN IF r.exc = "NetlinkNoAddressError" THEN RNone ELSE r
    ELSE IF r.kind = "None" THEN RRaise("TypeError")
    ELSE IF r.val = << >> THEN RRaise("IndexError")
    ELSE IF r.val[1].kind = "Link" THEN RInt(r.val[1].body[1])
    ELSE RRaise("AttributeError")

\* tx_nlpacket(pkt): fire and forget.
TxNlpacket(pkt) ==
    /\ IF IsUnbuilt(pkt)
       THEN /\ sent' = << >>
            /\ result' = RLogged("You must first call build_message() to create the packet")
            /\ opres' = RLogged("You must first call build_message() to create the packet")
            /\ UNCHANGED <<tx_socket, sock>>
       ELSE /\ LET e == TxSocketAllocate(tx_socket, sock)
               IN  tx_socket' = e.tx_socket /\ sock' = e.sock
            /\ sent' = << pkt.message >>
            /\ result' = RNone
            /\ opres' = RNone
    /\ rx' = RxInit
    /\ UNCHANGED <<shutdown_flag, pc, nlpacket, caller, null_read, msgs, data>>

\* tx_nlpacket_get_response(pkt) up to the first iteration of its wait loop.
TxNlpacketGetResponse(pkt, who) ==
    /\ IF IsUnbuilt(pkt)
       THEN /\ result' = RLogged("You must first call build_message() to create the packet")
            /\ opres' = FinishOp(who, RLogged("You must first call build_message() to create the packet"))
            /\ sent' = << >>
            /\ UNCHANGED <<tx_socket, sock, pc, nlpacket, caller, null_read, msgs, data>>
       ELSE /\ LET e == TxSocketAllocate(tx_socket, sock)
               IN  tx_socket' = e.tx_socket /\ sock' = e.sock
            /\ sent' = << pkt.message >>
            /\ nlpacket' = pkt
            /\ caller' = who
            /\ null_read' = 0
            /\ msgs' = << >>
            /\ data' = << >>
            /\ pc' = "wait"
            /\ result' = RPending
            /\ opres' = RPending
    /\ rx' = RxInit
    /\ UNCHANGED shutdown_flag

\* tx_nlpacket_get_response leaves with outcome r; the locals are gone.
Leave(r, rxv) ==
    /\ result' = r
    /\ opres' = FinishOp(caller, r)
    /\ pc' = "idle"
    /\ null_read' = 0
    /\ msgs' = << >>
    /\ data' = << >>
    /\ rx' = rxv
    /\ UNCHANGED <<seqNext, tx_socket, shutdown_flag, nlpacket, caller, lastOp, sent, built, sock>>

\* The history of the wait as it ends for the reason why.
Why(why) == [rx EXCEPT !.why = why, !.held = Len(msgs)]

----------------------------------------------------------------------------
(* The wait loop of tx_nlpacket_get_response *)

\* The loop never looking at the flag.
FlagSeenNever(flag) == FALSE

\* "if self.shutdown_flag", at the top of "while True".
FlagSeen(flag) == flag

\* "if self.shutdown_flag: return msgs"
ShutdownExit ==
    /\ pc = "wait"
    /\ FlagSeen(shutdown_flag)
    /\ Leave(RList(msgs), Why("shutdown"))

\* The limit test of the safety net, one poll late.
LimitReachedLate(n) == n > MAX_NULL_READS

\* The limit test of the safety net.
LimitReached(n) == n >= MAX_NULL_READS

\* The safety net dropping what was accumulated.
TimeoutResultEmpty(m) == RList(<< >>)

\* "return msgs" of the safety net.
TimeoutResult(m) == RList(m)

\* select() times out: "if not readable".
Timeout ==
    /\ pc = "wait"
    /\ ~FlagSeen(shutdown_flag)
    /\ IF LimitReached(null_read + 1)
       THEN Leave(TimeoutResult(msgs), [Why("timeout") EXCEPT !.timeouts = @ + 1, !.streak = @ + 1])
       ELSE /\ null_read' = null_read + 1
            /\ rx' = [rx EXCEPT !.timeouts = @ + 1, !.streak = @ + 1]
            /\ UNCHANGED <<seqNext, tx_socket, shutdown_flag, pc, nlpacket, caller, msgs, data,
                           result, opres, lastOp, sent, built, sock>>

\* A zero-length receive after which the loop goes on polling.
RecvClosedIgnored ==
    /\ pc = "wait"
    /\ ~FlagSeen(shutdown_flag)
    /\ rx.recvs < MaxRecv
    /\ rx' = [rx EXCEPT !.recvs = @ + 1]
    /\ UNCHANGED <<seqNext, tx_socket, shutdown_flag, pc, nlpacket, caller, null_read, msgs,
                   data, result, opres, lastOp, sent, built, sock>>

\* recv() returns no bytes: the socket is closed.
RecvClosed ==
    /\ pc = "wait"
    /\ ~FlagSeen(shutdown_flag)
    /\ rx.recvs < MaxRecv
    /\ Leave(RList(msgs), [Why("closed") EXCEPT !.recvs = @ + 1])

\* recv() returns the frames fs in one buffer.
Recv(fs) ==
    /\ pc = "wait"
    /\ ~FlagSeen(shutdown_flag)
    /\ rx.recvs < MaxRecv
    /\ rx.frames + Len(fs) <= MaxRxFrames
    /\ WireAll(fs) # << >>
    /\ Len(WireAll(fs)) <= RECV_SIZE
    /\ data' = WireAll(fs)
    /\ pc' = "scan"
    /\ LET c == rx.clean /\ ~rx.done /\ CleanAnswer(fs, nlpacket)
       IN  rx' = [rx EXCEPT !.recvs = @ + 1,
                            !.streak = 0,
                            !.frames = @ + Len(fs),
                            !.clean = c,
                            !.done = c /\ EndsWithDone(fs),
                            !.expect = IF c THEN @ \o ObjectsOf(fs) ELSE << >>]
    /\ UNCHANGED <<seqNext, tx_socket, shutdown_flag, nlpacket, caller, null_read, msgs,
                   result, opres, lastOp, sent, built, sock>>

\* Advance with the rest of the buffer dropped instead of the frame.
AdvanceDropsBuffer(length) ==
    /\ data' = << >>
    /\ pc' = "wait"
    /\ UNCHANGED <<seqNext, tx_socket, shutdown_flag, nlpacket, caller, null_read,
                   result, opres, lastOp, sent, built, sock>>

\* "data = data[length:]", then "while data" or back to "while True".
Advance(length) ==
    /\ data' = Drop(data, length)
    /\ pc' = IF Drop(data, length) = << >> THEN "wait" ELSE "scan"
    /\ UNCHANGED <<seqNext, tx_socket, shutdown_flag, nlpacket, caller, null_read,
                   result, opres, lastOp, sent, built, sock>>

\* The pid test alone.
NotOursPidOnly(h, req) == h.pid # req.pid

\* The pid and sequence test made only for frames that are neither NLMSG_DONE nor NLMSG_ERROR.
NotOursAfterControl(h, req) ==
    (h.pid # req.pid \/ h.seq # req.seq) /\ h.msgtype \notin {NLMSG_DONE, NLMSG_ERROR}

\* The pid and sequence test: the frame is not an answer to req.
NotOurs(h, req) == h.pid # req.pid \/ h.seq # req.seq

\* ErrorCode read four bytes early, from the header's pid.
ErrorCodeWrongOffset(d) == Abs(UnpackI32(Take(Drop(d, header_LEN - 4), 4)))

\* ErrorCode without abs().
ErrorCodeSigned(d) == UnpackI32(Take(Drop(d, header_LEN), 4))

\* The error code of the error frame at the head of d.
ErrorCode(d) == Abs(UnpackI32(Take(Drop(d, header_LEN), 4)))

\* ErrorClass with the test inverted.
ErrorClassInverted(code) == IF code # NLE_NOADDR THEN "NetlinkNoAddressError" ELSE "NetlinkError"

\* The classification of a nonzero error code.
ErrorClass(code) == IF code = NLE_NOADDR THEN "NetlinkNoAddressError" ELSE "NetlinkError"

\* One iteration of "while data".
ScanFrame ==
    /\ pc = "scan"
    /\ IF Len(data) < header_LEN
       THEN Leave(RRaise("struct.error"), Why("raise"))
       ELSE LET h == UnpackHeader(Take(data, header_LEN)) IN
            IF h.msgtype \notin TypeToStringKeys
            THEN Leave(RRaise("KeyError"), Why("raise"))
            ELSE IF NotOurs(h, nlpacket)
            THEN Advance(h.length) /\ UNCHANGED <<msgs, rx>>
            ELSE IF h.msgtype = NLMSG_DONE
            THEN Leave(RList(msgs), Why("done"))
            ELSE IF h.msgtype = NLMSG_ERROR
            THEN IF Len(Take(Drop(data, header_LEN), 4)) < 4
                 THEN Leave(RRaise("struct.error"), Why("raise"))
                 ELSE IF ErrorCode(data) # 0
                 THEN Leave(RRaise(ErrorClass(ErrorCode(data))),
                            [Why("error") EXCEPT
                                !.code = UnpackI32(Take(Drop(data, header_LEN), 4))])
                 ELSE Leave(RList(msgs), Why("ack"))
            ELSE IF DecoderFor(h.msgtype) = ""
            THEN Leave(RRaise("Exception"), Why("raise"))
            ELSE /\ msgs' = Append(msgs, DecodePacket(DecoderFor(h.msgtype), h, data))
                 /\ Advance(h.length)
                 /\ UNCHANGED rx

----------------------------------------------------------------------------
(* Signal handlers *)

\* signal_term_handler
SignalTerm ==
    /\ ~shutdown_flag
    /\ shutdown_flag' = TRUE
    /\ UNCHANGED <<seqNext, tx_socket, pc, nlpacket, caller, null_read, msgs, data,
                   result, opres, lastOp, sent, built, sock, rx>>

\* signal_int_handler
SignalInt ==
    /\ ~shutdown_flag
    /\ shutdown_flag' = TRUE
    /\ UNCHANGED <<seqNext, tx_socket, pc, nlpacket, caller, null_read, msgs, data,
                   result, opres, lastOp, sent, built, sock, rx>>

----------------------------------------------------------------------------
(* Operations *)

\* Every operation starts from the idle thread and a fresh history.
Begin(o) ==
    /\ pc = "idle"
    /\ lastOp' = [o EXCEPT !.tick = ~lastOp.tick]

\* "build_message(self.sequence.next(), self.pid)" for a request of type t.
Build(t, size) == BuildMessage(t, SequenceNext(seqNext), OurPid, size)

\* The history entry of a built request: the sequence number the allocator
\* returned and the one stamped into the encoded message.
Stamp(pkt) == [allocated |-> SequenceNext(seqNext), stamped |-> pkt.message[1].seq,
               pid |-> pkt.message[1].pid]

DumpTypes == { RTM_GETADDR, RTM_GETLINK, RTM_GETNEIGH, RTM_GETROUTE }

\* request_dump(rtm_type, family, debug)
RequestDump(rtm_type) ==
    /\ Begin(Op("request_dump"))
    /\ IF rtm_type \in DumpTypes
       THEN /\ seqNext < MaxSeq
            /\ seqNext' = SequenceNext(seqNext)
            /\ built' = Append(built, Stamp(Build(rtm_type, DefaultSize)))
            /\ TxNlpacketGetResponse(Build(rtm_type, DefaultSize), "request_dump")
       ELSE /\ result' = RPending
            /\ opres' = RLogged("request_dump RTM_GET is not supported")
            /\ rx' = RxInit
            /\ sent' = << >>
            /\ UNCHANGED <<seqNext, tx_socket, shutdown_flag, pc, nlpacket, caller, null_read,
                           msgs, data, built, sock>>


\* A request of type t is built and sent with tx_nlpacket.
BuildAndTx(t) ==
    /\ seqNext < MaxSeq
    /\ seqNext' = SequenceNext(seqNext)
    /\ built' = Append(built, Stamp(Build(t, DefaultSize)))
    /\ TxNlpacket(Build(t, DefaultSize))

\* A request of type t is built and sent with tx_nlpacket_get_response.
BuildAndCollect(t, who) ==
    /\ seqNext < MaxSeq
    /\ seqNext' = SequenceNext(seqNext)
    /\ built' = Append(built, Stamp(Build(t, DefaultSize)))
    /\ TxNlpacketGetResponse(Build(t, DefaultSize), who)

\* The operation raises e before anything is allocated, built or sent.
Rejected(e) ==
    /\ result' = RPending
    /\ opres' = RRaise(e)
    /\ rx' = RxInit
    /\ sent' = << >>
    /\ UNCHANGED <<seqNext, tx_socket, shutdown_flag, pc, nlpacket, caller, null_read,
                   msgs, data, built, sock>>

\* route_get(ip): ip_to_afi raises for an ip that is neither IPv4Address nor IPv6Address.
RouteGet(ip) ==
    /\ Begin(Op("route_get"))
    /\ IF ip \in {"IPv4Address", "IPv6Address"}
       THEN BuildAndCollect(RTM_GETROUTE, "route_get")
       ELSE Rejected("Exception")

\* get_iface_index(ifname), through _get_iface_by_name
GetIfaceIndex ==
    /\ Begin(Op("get_iface_index"))
    /\ BuildAndCollect(RTM_GETLINK, "get_iface_index")

\* int(s) of a string of decimal digits: [ok, val]; ok is FALSE where int() raises ValueError.
DigitVal(c) ==
    CASE c = "0" -> 0 [] c = "1" -> 1 [] c = "2" -> 2 [] c = "3" -> 3 [] c = "4" -> 4
      [] c = "5" -> 5 [] c = "6" -> 6 [] c = "7" -> 7 [] c = "8" -> 8 [] c = "9" -> 9
      [] OTHER -> -1

RECURSIVE IntAcc(_, _)
IntAcc(s, acc) ==
    IF s = << >> THEN [ok |-> TRUE, val |-> acc]
    ELSE IF DigitVal(Head(s)) < 0 THEN [ok |-> FALSE, val |-> 0]
    ELSE IntAcc(Tail(s), 10 * acc + DigitVal(Head(s)))

IntOf(s) == IF s = << >> THEN [ok |-> FALSE, val |-> 0] ELSE IntAcc(s, 0)

\* '.' in ifname
HasDot(name) == \E i \in 1..Len(name) : name[i] = "."

RECURSIVE LastPart(_)
\* ifname.split('.')[-1]
LastPart(name) ==
    IF ~HasDot(name) THEN name
    ELSE LastPart(Tail(name))

\* The test of link_add_vlan accepting every suffix.
VlanMismatchNever(ifname_vlanid, vlanid) == FALSE

\* The test of link_add_vlan: ifname_vlanid != vlanid.
VlanMismatch(ifname_vlanid, vlanid) == ifname_vlanid # vlanid

\* link_add_vlan(ifindex, ifname, vlanid) with _link_add
LinkAddVlan(n, vlanid) ==
    /\ Begin([Op("link_add_vlan") EXCEPT !.ifname = n.chars, !.suffix = n.suffix, !.vlanid = vlanid])
    /\ IF HasDot(n.chars) /\ ~IntOf(LastPart(n.chars)).ok
       THEN Rejected("ValueError")
       ELSE IF HasDot(n.chars) /\ VlanMismatch(IntOf(LastPart(n.chars)).val, vlanid)
       THEN Rejected("InvalidInterfaceNameVlanCombo")
       ELSE BuildAndTx(RTM_NEWLINK)

\* link_add_macvlan(ifindex, ifname) with _link_add
LinkAddMacvlan ==
    /\ Begin(Op("link_add_macvlan"))
    /\ BuildAndTx(RTM_NEWLINK)

\* link_add_bridge_vlan / link_del_bridge_vlan with _link_bridge_vlan
LinkBridgeVlan(msgtype) ==
    /\ Begin(Op("link_bridge_vlan"))
    /\ BuildAndTx(msgtype)

\* link_set_updown(ifname, state)
LinkSetUpdown(state) ==
    /\ Begin(Op("link_set_updown"))
    /\ IF state \in {"up", "down"}
       THEN BuildAndTx(RTM_NEWLINK)
       ELSE Rejected("Exception")

\* link_set_protodown(ifname, state)
LinkSetProtodown ==
    /\ Begin(Op("link_set_protodown"))
    /\ BuildAndTx(RTM_NEWLINK)

\* neighbor_add(afi, ifindex, ip, mac)
NeighborAdd ==
    /\ Begin(Op("neighbor_add"))
    /\ BuildAndTx(RTM_NEWNEIGH)

\* neighbor_del(afi, ifindex, ip, mac)
NeighborDel ==
    /\ Begin(Op("neighbor_del"))
    /\ BuildAndTx(RTM_DELNEIGH)

\* tx_nlpacket(pkt) called with a packet that was never built.
CallTxNlpacket ==
    /\ Begin(Op("tx_nlpacket"))
    /\ TxNlpacket(Unbuilt)
    /\ UNCHANGED <<seqNext, built>>

\* tx_nlpacket_get_response(pkt) called with a packet that was never built.
CallTxNlpacketGetResponse ==
    /\ Begin(Op("tx_nlpacket_get_response"))
    /\ TxNlpacketGetResponse(Unbuilt, "tx_nlpacket_get_response")
    /\ UNCHANGED <<seqNext, built>>

\* shutdown()
Shutdown ==
    /\ Begin(Op("shutdown"))
    /\ IF tx_socket # 0
       THEN /\ sock' = [sock EXCEPT !.closed = Append(@, tx_socket)]
            /\ tx_socket' = 0
       ELSE UNCHANGED <<tx_socket, sock>>
    /\ result' = RPending
    /\ opres' = RNone
    /\ rx' = RxInit
    /\ sent' = << >>
    /\ UNCHANGED <<seqNext, shutdown_flag, pc, nlpacket, caller, null_read, msgs, data, built>>

----------------------------------------------------------------------------
(* Bulk routes *)

\* "if len(total_message) >= PACKET_CONCAT_SIZE"
ReachedBudget(n) == n >= PACKET_CONCAT_SIZE

RECURSIVE RoutesLoop(_, _, _, _, _)
\* One "for ... in routes" loop of _routes_add_or_delete with tx_or_concat_message:
\* from the pending total_message, the sizes of the routes still to build, the
\* allocator's state, the buffers transmitted and the requests built so far, to
\* the same four at the end of the loop.
RoutesLoop(t, total, sizes, n, acc) ==
    IF sizes = << >> THEN [total |-> total, n |-> n, out |-> acc.out, built |-> acc.built]
    ELSE LET route == BuildMessage(t, SequenceNext(n), OurPid, Head(sizes))
             entry == [allocated |-> SequenceNext(n), stamped |-> route.message[1].seq,
                       pid |-> route.message[1].pid]
             cat == total \o route.message
         IN  IF ReachedBudget(MessageLen(cat))
             THEN RoutesLoop(t, << >>, Tail(sizes), SequenceNext(n),
                             [out |-> Append(acc.out, cat), built |-> Append(acc.built, entry)])
             ELSE RoutesLoop(t, cat, Tail(sizes), SequenceNext(n),
                             [out |-> acc.out, built |-> Append(acc.built, entry)])

\* "if total_message: self.tx_nlpacket_raw(total_message)" after a loop: the
\* buffers transmitted; total_message itself is left as it is.
FlushRest(total, out) == IF total # << >> THEN Append(out, total) ELSE out

\* The encoded sizes a route request can have: an IPv4 route's, ones that fill
\* the budget exactly in pairs or alone, and one larger than the budget.
RouteSizes == { 60, PACKET_CONCAT_SIZE \div 2, PACKET_CONCAT_SIZE, PACKET_CONCAT_SIZE + 16 }

\* The lists of at most n route sizes drawn from S.
SizeLists(S, n) == UNION { [1..k -> S] : k \in 0..n }

\* _routes_add_or_delete(add_route, routes, ecmp_routes, ...), for routes_add and routes_del
RoutesAddOrDelete(add_route, routes, ecmp) ==
    LET t == IF add_route THEN RTM_NEWROUTE ELSE RTM_DELROUTE
        r1 == RoutesLoop(t, << >>, routes, seqNext, [out |-> << >>, built |-> << >>])
        o1 == IF routes # << >> THEN FlushRest(r1.total, r1.out) ELSE r1.out
        r2 == RoutesLoop(t, r1.total, ecmp, r1.n, [out |-> o1, built |-> r1.built])
        o2 == IF ecmp # << >> THEN FlushRest(r2.total, r2.out) ELSE r2.out
    IN  /\ Begin([Op(IF add_route THEN "routes_add" ELSE "routes_del")
                     EXCEPT !.routes = routes, !.ecmp = ecmp])
        /\ seqNext + Len(routes) + Len(ecmp) <= MaxSeq
        /\ seqNext' = r2.n
        /\ built' = built \o r2.built
        /\ sent' = o2
        /\ IF o2 # << >>
           THEN LET e == TxSocketAllocate(tx_socket, sock)
                IN  tx_socket' = e.tx_socket /\ sock' = e.sock
           ELSE UNCHANGED <<tx_socket, sock>>
        /\ result' = RPending
        /\ opres' = RNone
        /\ rx' = RxInit
        /\ UNCHANGED <<shutdown_flag, pc, nlpacket, caller, null_read, msgs, data>>

\* The interface names link_add_vlan is called with: the characters, and what
\* the suffix after the last dot stands for (-1: no dot, -2: not a number).
VlanNames ==
    { [chars |-> << "s", "2" >>, suffix |-> -1],
      [chars |-> << "s", "2", ".", "1", "7" >>, suffix |-> 17],
      [chars |-> << "s", "2", ".", "1", "2" >>, suffix |-> 12],
      [chars |-> << "s", "2", ".", "0", "1", "2" >>, suffix |-> 12],
      [chars |-> << "s", ".", "1", ".", "1", "2" >>, suffix |-> 12],
      [chars |-> << "s", "2", ".", "v" >>, suffix |-> -2],
      [chars |-> << "s", "2", "." >>, suffix |-> -2] }

VlanIds == { 12, 17 }

----------------------------------------------------------------------------
(* Specification of the receive path: the wait for the first collected request of
   a session, with every kind of frame *)

NextRx ==
    \/ built = << >> /\ RequestDump(RTM_GETROUTE)
    \/ ShutdownExit
    \/ RecvClosed
    \/ \E fs \in Buffers(FramesRx(nlpacket.seq), MaxRxFrames - rx.frames) : Recv(fs)
    \/ ScanFrame
    \/ SignalTerm

SpecRx == Init /\ [][NextRx]_vars

----------------------------------------------------------------------------
(* Specification of a session: every operation, the wait loop answered one
   frame at a time, the signal handlers *)

Next ==
    \/ \E t \in DumpTypes \cup {RTM_SETLINK} : RequestDump(t)
    \/ \E ip \in {"IPv4Address", "IPv6Address", "str"} : RouteGet(ip)
    \/ GetIfaceIndex
    \/ \E n \in VlanNames, v \in VlanIds : LinkAddVlan(n, v)
    \/ LinkAddMacvlan
    \/ \E t \in {RTM_SETLINK, RTM_DELLINK} : LinkBridgeVlan(t)
    \/ \E st \in {"up", "down", "sideways"} : LinkSetUpdown(st)
    \/ LinkSetProtodown
    \/ NeighborAdd
    \/ NeighborDel
    \/ \E a \in BOOLEAN :
         \E r \in SizeLists({60}, MaxSeq - seqNext) :
           \E e \in SizeLists({60}, MaxSeq - seqNext - Len(r)) : RoutesAddOrDelete(a, r, e)
    \/ CallTxNlpacket
    \/ CallTxNlpacketGetResponse
    \/ Shutdown
    \/ ShutdownExit
    \/ RecvClosed
    \/ \E fs \in Buffers(FramesSmall(nlpacket.seq), 1) : Recv(fs)
    \/ ScanFrame
    \/ SignalTerm
    \/ SignalInt

Spec == Init /\ [][Next]_vars

----------------------------------------------------------------------------
(* Specification of the idle wait: requests whose answer may never come *)

NextIdle ==
    \/ \E t \in {RTM_GETLINK, RTM_SETLINK} : RequestDump(t)
    \/ ShutdownExit
    \/ Timeout
    \/ RecvClosed
    \/ \E fs \in Buffers(FramesSmall(nlpacket.seq), 1) : Recv(fs)
    \/ ScanFrame
    \/ SignalTerm
    \/ SignalInt

\* select() returns within its one-second timeout and the loop body always
\* completes, so a wait that can take a step eventually takes one.
SpecIdle ==
    /\ Init /\ [][NextIdle]_vars
    /\ WF_vars(Timeout) /\ WF_vars(ShutdownExit) /\ WF_vars(ScanFrame)

----------------------------------------------------------------------------
(* Specification of the bulk route path: routes of every size class *)

NextRoutes ==
    \/ \E a \in BOOLEAN :
         \E r \in SizeLists(RouteSizes, MaxSeq - seqNext) :
           \E e \in SizeLists(RouteSizes, MaxSeq - seqNext - Len(r)) : RoutesAddOrDelete(a, r, e)
    \/ Shutdown

SpecRoutes == Init /\ [][NextRoutes]_vars

----------------------------------------------------------------------------
(* Specification of late answers: collected and fire-and-forget requests in turn,
   waits that time out or are shut down, frames of earlier requests and of other
   clients arriving during a later wait *)

NextLate ==
    \/ RequestDump(RTM_GETLINK)
    \/ NeighborAdd
    \/ ShutdownExit
    \/ Timeout
    \/ RecvClosed
    \/ \E fs \in Buffers(FramesLate(nlpacket.seq), 1) : Recv(fs)
    \/ ScanFrame
    \/ SignalTerm

SpecLate == Init /\ [][NextLate]_vars

----------------------------------------------------------------------------
(* Specification of interface lookups: get_iface_index and every way its wait ends *)

NextIface ==
    \/ GetIfaceIndex
    \/ ShutdownExit
    \/ Timeout
    \/ RecvClosed
    \/ \E fs \in Buffers(FramesIface(nlpacket.seq), 1) : Recv(fs)
    \/ ScanFrame
    \/ SignalTerm

SpecIface == Init /\ [][NextIface]_vars

----------------------------------------------------------------------------
(* Properties of the receive path *)

\* The frame f is at the scan position.
HeadIs(f) == pc = "scan" /\ Take(data, Len(Wire(f))) = Wire(f)

\* The step is one of the thread, not a signal handler's.
ThreadStep == shutdown_flag' = shutdown_flag

\* The step discards the frame f: nothing is appended, the call goes on, and the
\* scan position advances by f's declared length.
Discards(f) ==
    /\ msgs' = msgs
    /\ data' = Drop(data, f.length)
    /\ pc' \in {"scan", "wait"}
    /\ result' = result

\* The step appends the object of f at the end of the results and goes on to the next frame.
Keeps(f) ==
    /\ msgs' = Append(msgs, ObjectOf(f))
    /\ data' = Drop(data, f.length)
    /\ pc' \in {"scan", "wait"}
    /\ result' = result

\* The frames of SpecRx whose declared length is their size and which arrive whole.
WholeFrames(s) == { f \in FramesRx(s) : WellFormed(f) }

\* C1: every received frame whose pid or sequence differs from the outstanding
\* request's is discarded (not appended, the scan position advanced by exactly its
\* declared length), and the matching data frames are kept in their order.
C1_ForeignDiscarded ==
    [][ \A f \in WholeFrames(nlpacket.seq) :
            (HeadIs(f) /\ ThreadStep) =>
                /\ ~Matches(f, nlpacket) => Discards(f)
                /\ (Matches(f, nlpacket) /\ IsData(f)) => Keeps(f) ]_vars

\* C1 for the frames whose type NetlinkPacket.type_to_string names.
C1_NamedForeignDiscarded ==
    [][ \A f \in WholeFrames(nlpacket.seq) :
            (HeadIs(f) /\ ThreadStep /\ f.msgtype \in TypeToStringKeys) =>
                /\ ~Matches(f, nlpacket) => Discards(f)
                /\ (Matches(f, nlpacket) /\ IsData(f)) => Keeps(f) ]_vars

\* C2: once the kernel has emitted K matching data frames and then a matching
\* NLMSG_DONE, over any number of receive buffers, the scan of the last buffer
\* ends with the call returning exactly the K objects in emission order.
C2_DumpReturnsAll ==
    (rx.clean /\ rx.done /\ pc # "scan") =>
        (pc = "idle" /\ rx.why = "done" /\ result = RList(rx.expect))

\* C2 reached: two objects returned from a dump that came in two buffers.
C2_Witness ==
    /\ pc = "idle" /\ rx.clean /\ rx.done /\ rx.why = "done"
    /\ rx.recvs = 2 /\ Len(result.val) = 2

\* A matching error frame carrying the code c.
ErrorFrame(c) == WF(NLMSG_ERROR, nlpacket.seq, nlpacket.pid, PackI32(c))

\* C3: a matching NLMSG_ERROR frame with code 0 ends the call with the list
\* accumulated so far returned, and never raises.
C3_AckReturns ==
    [][ (HeadIs(ErrorFrame(0)) /\ ThreadStep) =>
            (pc' = "idle" /\ result' = RList(msgs)) ]_vars

\* C3 reached: an ack after one data frame returned that one object.
C3_Witness == pc = "idle" /\ rx.why = "ack" /\ result.kind = "list" /\ Len(result.val) = 1

\* C4: a matching NLMSG_ERROR frame whose code is the no-address code, negative
\* or positive on the wire, raises NetlinkNoAddressError and nothing else.
C4_NoAddress ==
    [][ \A c \in {-NLE_NOADDR, NLE_NOADDR} :
            (HeadIs(ErrorFrame(c)) /\ ThreadStep) =>
                (pc' = "idle" /\ result' = RRaise("NetlinkNoAddressError")) ]_vars

\* C4 reached: the negative code on the wire raised NetlinkNoAddressError.
C4_Witness ==
    /\ pc = "idle" /\ rx.why = "error" /\ rx.code = -NLE_NOADDR
    /\ result = RRaise("NetlinkNoAddressError")

\* C5: a matching NLMSG_ERROR frame with a nonzero code other than the no-address
\* code raises NetlinkError, whatever was accumulated: no list is returned.
C5_GenericError ==
    [][ \A c \in ErrCodes \ {0, -NLE_NOADDR, NLE_NOADDR} :
            (HeadIs(ErrorFrame(c)) /\ ThreadStep) =>
                (pc' = "idle" /\ result' = RRaise("NetlinkError")) ]_vars

\* C5 reached: NetlinkError raised after two objects had been accumulated.
C5_Witness ==
    /\ pc = "idle" /\ rx.why = "error" /\ rx.held = 2
    /\ result = RRaise("NetlinkError")

----------------------------------------------------------------------------
(* Properties of the idle wait *)

\* The wait has ended without the socket ever having been readable.
EndedUnread == pc = "idle" /\ rx.why # "none" /\ rx.recvs = 0

\* C6 as stated: a wait during which the socket never becomes readable ends after
\* exactly MAX_NULL_READS timed-out polls with an empty list returned.
C6_AlwaysThirtyPolls ==
    EndedUnread => (rx.timeouts = MAX_NULL_READS /\ result = RList(<< >>))

\* C6: a wait during which the socket never becomes readable ends; while the
\* shutdown flag stays clear it goes on through fewer than MAX_NULL_READS timed-out
\* polls and ends at exactly the MAX_NULL_READS-th; once a signal handler has set
\* the flag it ends at the next iteration, after fewer polls; either way an empty
\* list is returned and nothing is raised.
C6_IdleTimeout ==
    /\ [](  /\ (pc = "wait" /\ rx.recvs = 0) =>
                  (rx.timeouts = null_read /\ null_read < MAX_NULL_READS)
            /\ EndedUnread =>
                  /\ result = RList(<< >>)
                  /\ \/ rx.why = "timeout" /\ rx.timeouts = MAX_NULL_READS
                     \/ rx.why = "shutdown" /\ shutdown_flag /\ rx.timeouts < MAX_NULL_READS
                  /\ ~shutdown_flag => rx.why = "timeout" )
    /\ (pc = "wait" ~> pc = "idle")

\* C6 reached: the thirtieth timed-out poll returned the empty list.
C6_Witness ==
    /\ EndedUnread /\ ~shutdown_flag /\ rx.why = "timeout"
    /\ rx.timeouts = MAX_NULL_READS /\ result = RList(<< >>)

----------------------------------------------------------------------------
(* Properties of the bulk route path *)

\* The transmission b is one request larger than the budget, sent alone.
OversizedAlone(b) == Len(b) = 1 /\ b[1].size > PACKET_CONCAT_SIZE

\* Some request of b but the last completes exactly the budget.
BudgetPassed(b) == \E k \in 1..(Len(b) - 1) : MessageLen(Take(b, k)) = PACKET_CONCAT_SIZE

\* C7 as stated: no transmission of a bulk route call carries more than
\* PACKET_CONCAT_SIZE bytes, except one request larger than that sent alone; and
\* a pending run whose size is exactly PACKET_CONCAT_SIZE is flushed there.
C7_WithinBudget ==
    lastOp.op \in {"routes_add", "routes_del"} =>
        \A i \in 1..Len(sent) :
            /\ MessageLen(sent[i]) <= PACKET_CONCAT_SIZE \/ OversizedAlone(sent[i])
            /\ ~BudgetPassed(sent[i])

\* The part of C7 the code keeps: a pending run is transmitted as soon as it
\* reaches PACKET_CONCAT_SIZE, so every transmission was below it before its last
\* request was appended, and one of exactly that size goes out at that request.
C7_FlushedOnReaching ==
    lastOp.op \in {"routes_add", "routes_del"} =>
        \A i \in 1..Len(sent) :
            \A k \in 1..(Len(sent[i]) - 1) : MessageLen(Take(sent[i], k)) < PACKET_CONCAT_SIZE

----------------------------------------------------------------------------
(* Properties of the builders *)

\* The step is the call of the operation named op.
Calls(op) == lastOp' # lastOp /\ lastOp'.op = op

\* The step builds exactly one request with a fresh sequence number and sends it.
BuildsAndSendsOne(t) ==
    /\ seqNext' = seqNext + 1
    /\ Len(built') = Len(built) + 1
    /\ built'[Len(built')].stamped = seqNext + 1
    /\ Len(sent') = 1 /\ Len(sent'[1]) = 1
    /\ sent'[1][1].seq = seqNext + 1 /\ sent'[1][1].msgtype = t
    /\ tx_socket' # 0

\* The step allocates no sequence number, builds nothing, creates no socket and
\* sends nothing.
NoProtocolEffect ==
    /\ UNCHANGED <<seqNext, built, tx_socket, sock>>
    /\ sent' = << >>
    /\ pc' = "idle"

\* C8: link_add_vlan with a name whose dotted suffix is a number other than vlanid
\* raises InvalidInterfaceNameVlanCombo with no sequence number allocated, no
\* packet built, no socket created and nothing sent; with a suffix equal to
\* vlanid, or a name without a dot, it builds one request with a fresh sequence
\* number and sends it.
C8_VlanSuffixChecked ==
    [][ Calls("link_add_vlan") =>
            /\ (lastOp'.suffix >= 0 /\ lastOp'.suffix # lastOp'.vlanid) =>
                   (opres' = RRaise("InvalidInterfaceNameVlanCombo") /\ NoProtocolEffect)
            /\ (lastOp'.suffix = lastOp'.vlanid \/ lastOp'.suffix = -1) =>
                   (opres' = RNone /\ BuildsAndSendsOne(RTM_NEWLINK)) ]_vars

\* C8 reached: swp2.17 asked for VLAN 12 was rejected after an earlier request.
C8_Witness ==
    /\ lastOp.op = "link_add_vlan" /\ lastOp.suffix = 17 /\ lastOp.vlanid = 12
    /\ opres = RRaise("InvalidInterfaceNameVlanCombo") /\ seqNext = 1 /\ sent = << >>

\* C9: the sequence number stamped into each built request is the one the
\* allocator returned for it, the first is 1, and each is strictly greater than
\* all stamped before it.
C9_SequenceStamps ==
    /\ \A i \in 1..Len(built) : built[i].stamped = built[i].allocated
    /\ built # << >> => built[1].stamped = 1
    /\ \A i, j \in 1..Len(built) : i < j => built[i].stamped < built[j].stamped

\* C9 reached: a bulk route call built the session's second and third requests.
C9_Witness ==
    /\ lastOp.op = "routes_add" /\ Len(lastOp.routes) + Len(lastOp.ecmp) = 2
    /\ Len(built) = 3 /\ built[3].stamped = 3

\* C10: tx_nlpacket and tx_nlpacket_get_response called with a packet that was
\* not built log the error and return: no socket is created, nothing is sent and
\* no receive is attempted.
C10_UnbuiltRejected ==
    [][ (Calls("tx_nlpacket") \/ Calls("tx_nlpacket_get_response")) =>
            /\ opres' = RLogged("You must first call build_message() to create the packet")
            /\ NoProtocolEffect
            /\ rx' = RxInit ]_vars

\* C10 reached: tx_nlpacket_get_response on an unbuilt packet, before any socket existed.
C10_Witness ==
    /\ lastOp.op = "tx_nlpacket_get_response" /\ opres.log # ""
    /\ tx_socket = 0 /\ sock.created = 0 /\ pc = "idle"

----------------------------------------------------------------------------
(* Properties of the wait loop *)

\* C11: at the top of a wait iteration with the shutdown flag set by a signal
\* handler, the call returns the objects accumulated so far and raises nothing;
\* no poll or receive is made any more, and such a wait always ends.
C11_ShutdownAborts ==
    /\ [][ (pc = "wait" /\ shutdown_flag) =>
               (pc' = "idle" /\ result' = RList(msgs) /\ rx'.why = "shutdown"
                /\ rx'.timeouts = rx.timeouts /\ rx'.recvs = rx.recvs) ]_vars
    /\ ((pc = "wait" /\ shutdown_flag) ~> pc = "idle")

\* C11 reached: a signal after one decoded object ended the wait with that object.
C11_Witness ==
    /\ pc = "idle" /\ shutdown_flag /\ rx.why = "shutdown"
    /\ result.kind = "list" /\ Len(result.val) = 1 /\ rx.recvs = 1

\* The types tx_nlpacket_get_response has a branch for.
RecognizedTypes ==
    { NLMSG_DONE, NLMSG_ERROR, RTM_NEWLINK, RTM_DELLINK, RTM_NEWADDR, RTM_DELADDR,
      RTM_NEWNEIGH, RTM_DELNEIGH, RTM_NEWROUTE, RTM_DELROUTE }

\* C12: a frame with the outstanding request's pid and sequence whose type is not
\* a recognized one ends the call with an exception raised: it is neither skipped
\* nor appended to the results.
C12_UnknownTypeFatal ==
    [][ (pc = "scan" /\ ThreadStep) =>
            \A f \in WholeFrames(nlpacket.seq) :
                (Matches(f, nlpacket) /\ f.msgtype \notin RecognizedTypes /\ HeadIs(f)) =>
                    (pc' = "idle" /\ result'.kind = "raise"
                     /\ result'.exc \in {"Exception", "KeyError"}) ]_vars

\* C12 reached: a matching frame of a named type without a decoder raised after
\* one object had been accumulated.
C12_Witness ==
    /\ pc = "idle" /\ rx.why = "raise" /\ result = RRaise("Exception") /\ rx.held = 1

----------------------------------------------------------------------------
(* Properties of the socket *)

\* The sockets created and not closed.
OpenSockets == { n \in 1..sock.created : \A i \in 1..Len(sock.closed) : sock.closed[i] # n }

\* The step hands bytes to the socket.
Sends == lastOp' # lastOp /\ sent' # << >>

\* C13: no socket exists before the first send; a send creates one only when the
\* handle is empty, so the only open socket is the one the handle names;
\* shutdown() closes that socket and clears the handle, and does nothing when the
\* handle is empty; nothing else touches the socket, and none is closed twice.
C13_SocketLifecycle ==
    /\ [](  /\ OpenSockets = (IF tx_socket = 0 THEN {} ELSE {tx_socket})
            /\ \A i, j \in 1..Len(sock.closed) : i # j => sock.closed[i] # sock.closed[j]
            /\ (built = << >>) => (tx_socket = 0 /\ sock.created = 0) )
    /\ [][ /\ (Sends /\ tx_socket = 0) =>
                  (sock' = [sock EXCEPT !.created = @ + 1] /\ tx_socket' = sock'.created)
           /\ (Sends /\ tx_socket # 0) => UNCHANGED <<tx_socket, sock>>
           /\ (Calls("shutdown") /\ tx_socket # 0) =>
                  (sock' = [sock EXCEPT !.closed = Append(@, tx_socket)] /\ tx_socket' = 0)
           /\ (Calls("shutdown") /\ tx_socket = 0) => UNCHANGED <<tx_socket, sock>>
           /\ (~Sends /\ ~Calls("shutdown")) => UNCHANGED <<tx_socket, sock>> ]_vars

\* C13 reached: two sockets were created and closed in turn, and none is open.
C13_Witness == sock.created = 2 /\ sock.closed = << 1, 2 >> /\ tx_socket = 0

----------------------------------------------------------------------------
(* Properties of the timeout safety net *)

\* C14 as stated: the wait is abandoned for silence only when MAX_NULL_READS polls
\* in a row have timed out since the last successful receive.
C14_ConsecutiveTimeouts ==
    (pc = "idle" /\ rx.why = "timeout") => rx.streak = MAX_NULL_READS

\* What the code counts: the timed-out polls of the whole call.
C14_TotalTimeouts ==
    /\ (pc = "idle" /\ rx.why = "timeout") => rx.timeouts = MAX_NULL_READS
    /\ (pc \in {"wait", "scan"}) => (null_read = rx.timeouts /\ null_read < MAX_NULL_READS)

----------------------------------------------------------------------------
(* Properties of what a bulk route call transmits *)

RECURSIVE Flatten(_)
\* The buffers handed to the socket, back to back.
Flatten(bufs) == IF bufs = << >> THEN << >> ELSE Head(bufs) \o Flatten(Tail(bufs))

\* The last operation is a bulk route call.
RoutesCalled == lastOp.op \in {"routes_add", "routes_del"}

\* The encoded requests of the last bulk route call, in build order.
RequestsBuilt ==
    LET sizes == lastOp.routes \o lastOp.ecmp
        first == Len(built) - Len(sizes)
    IN  [ i \in 1..Len(sizes) |->
            [ msgtype |-> IF lastOp.op = "routes_add" THEN RTM_NEWROUTE ELSE RTM_DELROUTE,
              seq |-> built[first + i].stamped, pid |-> OurPid, size |-> sizes[i] ] ]

\* C15 as stated: what a bulk route call hands to the socket is, back to back, the
\* encoded requests in build order, each once.
C15_EachRequestOnce == RoutesCalled => Flatten(sent) = RequestsBuilt

\* C15 for calls with one of the two lists empty.
C15_SingleListOnce ==
    (RoutesCalled /\ (lastOp.routes = << >> \/ lastOp.ecmp = << >>)) =>
        Flatten(sent) = RequestsBuilt

----------------------------------------------------------------------------
(* Properties of the ways a wait ends without an answer *)

\* C16: when the wait is abandoned at the timeout limit, the call returns a list
\* and raises nothing: the objects held at that moment, which after j matching
\* data frames and nothing else are exactly the j objects of those frames in order.
C16_TimeoutReturnsPartial ==
    (pc = "idle" /\ rx.why = "timeout") =>
        /\ result.kind = "list" /\ Len(result.val) = rx.held
        /\ opres = FinishOp(caller, result)
        /\ (rx.clean /\ ~rx.done) => result.val = rx.expect

\* C16 reached: the limit was reached after two matching data frames.
C16_Witness ==
    /\ pc = "idle" /\ rx.why = "timeout" /\ rx.clean /\ ~rx.done
    /\ rx.timeouts = MAX_NULL_READS /\ Len(result.val) = 2 /\ Len(rx.expect) = 2

\* The step is a receive that returned no bytes.
ZeroLengthRecv == pc = "wait" /\ rx'.recvs = rx.recvs + 1 /\ rx'.frames = rx.frames

\* C17: a zero-length receive ends the call at once with the objects accumulated
\* so far returned and nothing raised; after it no poll and no receive is made
\* until another operation is called.
C17_ClosedEndsWait ==
    [][ /\ ZeroLengthRecv =>
              (pc' = "idle" /\ result' = RList(msgs) /\ rx'.timeouts = rx.timeouts)
        /\ (pc = "idle" /\ rx.why = "closed" /\ rx' # rx) => lastOp' # lastOp ]_vars

\* C17 reached: the socket was closed after one object had been received.
C17_Witness ==
    /\ pc = "idle" /\ rx.why = "closed" /\ rx.recvs = 2
    /\ result.kind = "list" /\ Len(result.val) = 1

----------------------------------------------------------------------------
(* Properties of the frame loop *)

\* C18 as stated: whenever the frame loop is about to read a header, at least
\* header_LEN bytes remain in the receive buffer.
C18_FullHeaderRemains == (pc = "scan") => Len(data) >= header_LEN

\* What "while data" guarantees: at least one byte remains.
C18_SomeBytesRemain == (pc = "scan") => Len(data) >= 1

\* Every object of the list l was decoded from a frame with req's pid and sequence.
AllFrom(l, req) == \A i \in 1..Len(l) : l[i].pid = req.pid /\ l[i].seq = req.seq

\* C19: over a session of collected and fire-and-forget requests, every object
\* accumulated or returned for a request comes from a frame with that request's
\* pid and sequence number, whatever arrived late from earlier requests.
C19_OnlyOwnAnswers ==
    /\ (pc \in {"wait", "scan"}) => AllFrom(msgs, nlpacket)
    /\ (result.kind = "list") => AllFrom(result.val, nlpacket)

\* C19 reached: the third request of a session returned one object although a
\* frame that was not an answer to it had arrived during its wait.
C19_Witness ==
    /\ pc = "idle" /\ nlpacket.seq = 3 /\ rx.recvs = 2 /\ ~rx.clean
    /\ result.kind = "list" /\ Len(result.val) = 1

\* C20: an NLMSG_DONE or NLMSG_ERROR frame whose pid or sequence is not the
\* outstanding request's neither ends the wait nor raises: it is skipped by its
\* declared length and the scan goes on.
C20_ForeignControlSkipped ==
    [][ \A f \in FramesLate(nlpacket.seq) :
            (HeadIs(f) /\ ThreadStep /\ ~Matches(f, nlpacket)
                 /\ f.msgtype \in {NLMSG_DONE, NLMSG_ERROR}) =>
                (Discards(f) /\ pc' # "idle" /\ rx'.why = "none") ]_vars

\* C20 reached: a wait went on after a foreign error frame and returned at its own NLMSG_DONE.
C20_Witness ==
    /\ pc = "idle" /\ rx.why = "done" /\ rx.recvs = 2 /\ ~rx.clean /\ nlpacket.seq = 2

\* The iteration of the frame loop about to run ends the call or leaves a
\* strictly shorter buffer.
EndsOrShortens == ENABLED (ScanFrame /\ (pc' = "idle" \/ Len(data') < Len(data)))

\* C21 as stated: every iteration of the frame loop ends the call or strictly
\* shortens the remaining buffer, whatever length the frame declares.
C21_ScanTerminates == (pc = "scan") => EndsOrShortens

\* C21 for frames that declare a length of at least one byte, and for remainders
\* too short to hold a header.
C21_PositiveLengthShortens ==
    (pc = "scan" /\ (Len(data) < header_LEN \/ UnpackHeader(Take(data, header_LEN)).length > 0))
        => EndsOrShortens

----------------------------------------------------------------------------
(* Properties of get_iface_index *)

\* get_iface_index has ended; result is what its wait gave, opres what it gave its caller.
IfaceEnded == lastOp.op = "get_iface_index" /\ pc = "idle" /\ rx.why # "none"

\* The wait returned a list whose first object is a link.
LinkReceived == result.kind = "list" /\ result.val # << >> /\ result.val[1].kind = "Link"

\* C22 as stated: get_iface_index returns the index when a link object was
\* received, returns None when the wait ended with the no-address error or with
\* no object (ack, timeout, shutdown, closed socket), propagates NetlinkError,
\* and raises nothing else.
C22_ThreeOutcomes ==
    IfaceEnded =>
        /\ LinkReceived => opres = RInt(result.val[1].body[1])
        /\ (result = RRaise("NetlinkNoAddressError") \/ result = RList(<< >>)) => opres = RNone
        /\ result = RRaise("NetlinkError") => opres = RRaise("NetlinkError")
        /\ opres.kind = "raise" => opres.exc = "NetlinkError"

\* What the code does: as C22, except that a wait that ends with an empty list
\* makes get_iface_index raise IndexError.
C22_EmptyListRaises ==
    IfaceEnded =>
        /\ LinkReceived => opres = RInt(result.val[1].body[1])
        /\ result = RRaise("NetlinkNoAddressError") => opres = RNone
        /\ result = RRaise("NetlinkError") => opres = RRaise("NetlinkError")
        /\ result = RList(<< >>) => opres = RRaise("IndexError")

====
